---- MODULE Spec2Model ----
(***************************************************************************)
(* A model of ipalib/frontend.py: DefaultFrom, Param, create_param,        *)
(* Command (finalize, args_to_kw, __call__, run), and Method.get_options.  *)
(*                                                                         *)
(* Python values are records [k, s, items]: k is the runtime type          *)
(* ("none", "str", "uni", "tuple", "list"), s the text of a str/unicode,   *)
(* items the elements of a tuple/list.  A call's outcome is a record       *)
(* [st, val, name, index]: st = "ok" with the returned value, or the class *)
(* of the exception raised, with the param name and multivalue index the   *)
(* exception carries.                                                      *)
(***************************************************************************)
EXTENDS Integers, Sequences, FiniteSets, TLC

VARIABLES
    param,      \* a Param instance
    p_value,    \* the value handed to it
    p_kw,       \* the keyword context handed to it
    p_op,       \* the method last called on it
    p_out,      \* that call's outcome
    p_df,       \* what its DefaultFrom did, when that was the method called
    takes_args,         \* a Command's declared args
    takes_options,      \* and declared options
    args,               \* the attributes finalize sets
    options,
    params,
    max_args,
    fin,                \* the outcome of finalize
    in_server_context,  \* api.env.in_server_context
    run,                \* what the instance's run is bound to
    c_values,           \* the positional values handed to the Command
    c_kw,               \* the keyword values handed to it
    c_op,               \* the method last called on it
    c_out,              \* that call's outcome
    pc,                 \* where each caller of the Command is
    held,               \* the args and kw a caller inside run holds
    target,             \* the local variable target of a caller inside run
    calls,              \* how many calls have been made
    n_reads,            \* how many times run has read the context flag
    first_choice,       \* the strategy selected by the first such read
    overlapped,         \* whether two callers have been inside run at once
    c_env,              \* the context flag when a strategy was last invoked
    api_Property,       \* the registered Property plugins, in registration order
    m_takes_options,    \* a Method's own declared options
    obj_Property,       \* the Property namespace of the Method's Object
    m_op,               \* the method last called on the Method or its Object
    m_options           \* what get_options last yielded

pvars == <<param, p_value, p_kw, p_op, p_out, p_df>>
cvars == <<takes_args, takes_options, args, options, params, max_args, fin,
           in_server_context, run, c_values, c_kw, c_op, c_out>>
rvars == <<pc, held, target, calls, n_reads, first_choice, overlapped, c_env>>
mvars == <<api_Property, m_takes_options, obj_Property, m_op, m_options>>
vars == <<pvars, cvars, rvars, mvars>>

-----------------------------------------------------------------------------
(* Python values *)

None == [k |-> "none", s |-> "", items |-> <<>>]
Str(x) == [k |-> "str", s |-> x, items |-> <<>>]
Uni(x) == [k |-> "uni", s |-> x, items |-> <<>>]
Tup(q) == [k |-> "tuple", s |-> "", items |-> q]
Lst(q) == [k |-> "list", s |-> "", items |-> q]

Ok(v) == [st |-> "ok", val |-> v, name |-> "", index |-> -1]
Raise(e, n, i) == [st |-> e, val |-> None, name |-> n, index |-> i]

\* kw.get(k, None) on a keyword mapping (a function from names to values)
KwGet(kw, k) == IF k \in DOMAIN kw THEN kw[k] ELSE None

\* the index of the first element of a sequence of outcomes that raised, or 0
FirstRaise(rs) ==
    IF \E i \in DOMAIN rs : rs[i].st # "ok"
    THEN CHOOSE i \in DOMAIN rs :
            rs[i].st # "ok" /\ \A j \in DOMAIN rs : rs[j].st # "ok" => i <= j
    ELSE 0

-----------------------------------------------------------------------------
(* The Type capability (ipalib.ipa_types, a text type like Unicode) *)

\* type.type: the runtime type of a converted value
Type_type == "uni"

\* type(value): the converted value, or None when the value cannot be converted
Type_call(v) ==
    CASE v.k = "uni" -> v
      [] v.k = "str" -> IF v.s = "bad" THEN None ELSE Uni(v.s)
      [] OTHER -> None

\* type.validate(value): an error text, or "" for None (no error)
Type_validate(v) == IF v.s = "long" THEN "too long" ELSE ""

\* a rule of a Param: an error text, or "" for None (no error)
RuleCall(rule, v) ==
    CASE rule = "type.validate" -> Type_validate(v)
      [] rule = "not_b" -> IF v.s = "b" THEN "must not be b" ELSE ""
      [] OTHER -> ""

\* a normalize callback applied to a basestring: its outcome
NormalizeCall(cb, v) ==
    CASE cb = "lower" -> Ok([v EXCEPT !.s = IF v.s = "B" THEN "b" ELSE v.s])
      [] cb = "raises" -> Raise("StandardError", "", -1)
      [] OTHER -> Ok(v)

\* a DefaultFrom callback called with the positional values vals: its outcome
CallbackCall(cb, vals) ==
    CASE cb = "first" -> Ok(vals[1])
      [] cb = "last" -> Ok(vals[Len(vals)])
      [] cb = "bad" -> Ok(Str("bad"))
      [] cb = "none" -> Ok(None)
      [] cb = "raise" -> Raise("Exception", "", -1)
      [] OTHER -> Ok(None)

-----------------------------------------------------------------------------
(* DefaultFrom *)

NoDefaultFrom == [callback |-> "", keys |-> <<>>]
DefaultFrom(cb, ks) == [callback |-> cb, keys |-> ks]

\* DefaultFrom.__call__(**kw), with what it did: the value returned, whether
\* the callback was invoked, and the positional values it was invoked with
DefaultFrom_call_propagates(d, kw) ==
    LET vals == [i \in 1..Len(d.keys) |-> KwGet(kw, d.keys[i])]
        r == CallbackCall(d.callback, vals)
    IN  IF \E i \in 1..Len(vals) : vals[i] = None
        THEN [out |-> Ok(None), invoked |-> FALSE, vals |-> <<>>]
        ELSE [out |-> r, invoked |-> TRUE, vals |-> vals]

DefaultFrom_call(d, kw) ==
    LET vals == [i \in 1..Len(d.keys) |-> KwGet(kw, d.keys[i])]
        r == CallbackCall(d.callback, vals)
    IN  IF \E i \in 1..Len(vals) : vals[i] = None
        THEN [out |-> Ok(None), invoked |-> FALSE, vals |-> <<>>]
        ELSE [out |-> IF r.st = "ok" THEN r ELSE Ok(None),
              invoked |-> TRUE, vals |-> vals]

-----------------------------------------------------------------------------
(* Param *)

Param(n, req, multi, dflt, dfrom, rls, norm) ==
    [name |-> n, required |-> req, multivalue |-> multi, default |-> dflt,
     default_from |-> dfrom, rules |-> <<"type.validate">> \o rls,
     normalize |-> norm]

Param_normalize_scalar(p, value, index) ==
    IF value.k \notin {"str", "uni"}
    THEN Ok(value)
    ELSE LET r == NormalizeCall(p.normalize, value)
         IN  IF r.st = "ok" THEN r ELSE Ok(value)

Param_convert_scalar(p, value, index) ==
    IF value = None
    THEN Raise("TypeError", "", -1)
    ELSE LET converted == Type_call(value)
         IN  IF converted = None
             THEN Raise("ConversionError", p.name, index)
             ELSE Ok(converted)

Param_validate_scalar(p, value, index) ==
    IF value.k # Type_type
    THEN Raise("TypeError", "", -1)
    ELSE LET errs == [i \in 1..Len(p.rules) |->
                        IF RuleCall(p.rules[i], value) = ""
                        THEN Ok(None) ELSE Raise("RuleError", p.name, index)]
             f == FirstRaise(errs)
         IN  IF f = 0 THEN Ok(None) ELSE errs[f]

\* one of the two scalar methods __dispatch is handed
Scalar(p, scalar, value, index) ==
    IF scalar = "normalize"
    THEN Param_normalize_scalar(p, value, index)
    ELSE Param_convert_scalar(p, value, index)

\* the outcomes of a scalar method gathered into a tuple, or the first raise
Gather(rs) ==
    LET f == FirstRaise(rs)
    IN  IF f = 0 THEN Ok(Tup([i \in DOMAIN rs |-> rs[i].val])) ELSE rs[f]

Param_dispatch(p, value, scalar) ==
    IF p.multivalue
    THEN IF value.k \in {"tuple", "list"}
         THEN IF Len(value.items) = 0
              THEN Ok(None)
              ELSE Gather([i \in 1..Len(value.items) |->
                              Scalar(p, scalar, value.items[i], i - 1)])
         ELSE Gather(<<Scalar(p, scalar, value, 0)>>)
    ELSE Scalar(p, scalar, value, -1)

Param_normalize(p, value) ==
    IF p.normalize = "" THEN Ok(value) ELSE Param_dispatch(p, value, "normalize")

Param_convert(p, value) == Param_dispatch(p, value, "convert")

Param_validate(p, value) ==
    IF p.multivalue
    THEN IF value.k # "tuple"
         THEN Raise("TypeError", "", -1)
         ELSE LET rs == [i \in 1..Len(value.items) |->
                            Param_validate_scalar(p, value.items[i], i - 1)]
                  f == FirstRaise(rs)
              IN  IF f = 0 THEN Ok(None) ELSE rs[f]
    ELSE Param_validate_scalar(p, value, -1)

\* validation-class errors (errors.ValidationError and its subclasses)
ValidationError == {"ValidationError", "ConversionError", "RuleError",
                    "RequirementError"}

\* convert(normalize(value)); normalize never raises
ConvertNormalize(p, value) == Param_convert(p, Param_normalize(p, value).val)

Param_get_default_falls_through(p, kw) ==
    LET dflt == IF p.default_from # NoDefaultFrom
                THEN DefaultFrom_call(p.default_from, kw).out.val ELSE None
        r == ConvertNormalize(p, dflt)
    IN  IF p.default_from # NoDefaultFrom /\ dflt # None
        THEN IF r.st \in ValidationError THEN Ok(p.default) ELSE r
        ELSE Ok(p.default)

Param_get_default(p, kw) ==
    LET dflt == IF p.default_from # NoDefaultFrom
                THEN DefaultFrom_call(p.default_from, kw).out.val ELSE None
        r == ConvertNormalize(p, dflt)
    IN  IF p.default_from # NoDefaultFrom /\ dflt # None
        THEN IF r.st \in ValidationError THEN Ok(None) ELSE r
        ELSE Ok(p.default)

\* value in ('', tuple(), [])
IsEmpty(value) ==
    \/ value.k \in {"str", "uni"} /\ value.s = ""
    \/ value.k \in {"tuple", "list"} /\ value.items = <<>>

Param_call_never_requires(p, value, kw) ==
    LET v1 == IF IsEmpty(value) THEN None ELSE value
        d == IF v1 = None THEN Param_get_default(p, kw) ELSE Ok(v1)
        c == ConvertNormalize(p, d.val)
        v == Param_validate(p, c.val)
    IN  IF d.st # "ok" THEN d
        ELSE IF d.val = None THEN Ok(None)
        ELSE IF c.st # "ok" THEN c
        ELSE IF v.st # "ok" THEN v
        ELSE Ok(c.val)

Param_call(p, value, kw) ==
    LET v1 == IF IsEmpty(value) THEN None ELSE value
        d == IF v1 = None THEN Param_get_default(p, kw) ELSE Ok(v1)
        c == ConvertNormalize(p, d.val)
        v == Param_validate(p, c.val)
    IN  IF d.st # "ok" THEN d
        ELSE IF d.val = None
        THEN IF p.required
             THEN Raise("RequirementError", p.name, -1) ELSE Ok(None)
        ELSE IF c.st # "ok" THEN c
        ELSE IF v.st # "ok" THEN v
        ELSE Ok(c.val)

-----------------------------------------------------------------------------
(* create_param *)

\* A param spec string is modelled as the sequence of its name and, when it
\* ends in one, its suffix character: 'flag?' is <<"flag", "?">>, 'name' is
\* <<"name">>.  A declared item is a spec string or a Param instance.
SpecStr(q) == [type |-> "str", chars |-> q, param |-> None]
ParamItem(p) == [type |-> "Param", chars |-> <<>>, param |-> p]

EndsWith(q, c) == Len(q) > 0 /\ q[Len(q)] = c

\* spec[:-1] (or spec itself), as the name it spells
NameOf(q) == q[1]

create_param(spec) ==
    IF spec.type = "Param" THEN Ok(spec.param)
    ELSE IF spec.type # "str" THEN Raise("TypeError", "", -1)
    ELSE IF EndsWith(spec.chars, "?")
    THEN Ok(Param(NameOf(spec.chars), FALSE, FALSE, None, NoDefaultFrom, <<>>, ""))
    ELSE IF EndsWith(spec.chars, "*")
    THEN Ok(Param(NameOf(spec.chars), FALSE, TRUE, None, NoDefaultFrom, <<>>, ""))
    ELSE IF EndsWith(spec.chars, "+")
    THEN Ok(Param(NameOf(spec.chars), TRUE, TRUE, None, NoDefaultFrom, <<>>, ""))
    ELSE Ok(Param(NameOf(spec.chars), TRUE, FALSE, None, NoDefaultFrom, <<>>, ""))

-----------------------------------------------------------------------------
(* Command: finalize *)

\* plugable.NameSpace(members, sort=False): the members in the order given
NameSpace(members) == members

\* max_args: None (no bound) or a number
Unbounded == [bounded |-> FALSE, n |-> 0]
Bounded(n) == [bounded |-> TRUE, n |-> n]

\* the outcome of building a sequence of params: the params, or the error
Built(ps) == [st |-> "ok", members |-> ps, msg |-> "", name |-> ""]
BuildError(e, m, n) == [st |-> e, members |-> <<>>, msg |-> m, name |-> n]

RECURSIVE CreateArgsFrom(_, _, _, _, _)
CreateArgsFrom(items, i, optional, multivalue, acc) ==
    IF i > Len(items) THEN Built(acc)
    ELSE LET arg == create_param(items[i]).val
         IN  IF optional /\ arg.required
             THEN BuildError("ValueError", "required argument after optional",
                             arg.name)
             ELSE IF multivalue
             THEN BuildError("ValueError",
                             "only final argument can be multivalue", arg.name)
             ELSE CreateArgsFrom(items, i + 1,
                                 optional \/ ~arg.required,
                                 multivalue \/ arg.multivalue,
                                 Append(acc, arg))

RECURSIVE CreateArgsAnyMultivalue(_, _, _, _, _)
CreateArgsAnyMultivalue(items, i, optional, multivalue, acc) ==
    IF i > Len(items) THEN Built(acc)
    ELSE LET arg == create_param(items[i]).val
         IN  IF optional /\ arg.required
             THEN BuildError("ValueError", "required argument after optional",
                             arg.name)
             ELSE CreateArgsAnyMultivalue(items, i + 1,
                                          optional \/ ~arg.required,
                                          multivalue \/ arg.multivalue,
                                          Append(acc, arg))

Command_create_args_any_multivalue(items) ==
    CreateArgsAnyMultivalue(items, 1, FALSE, FALSE, <<>>)

Command_create_args(items) == CreateArgsFrom(items, 1, FALSE, FALSE, <<>>)

Command_create_options(items) ==
    Built([i \in 1..Len(items) |-> create_param(items[i]).val])

\* Command.finalize: the attributes it sets, or the error it raises before
\* setting any
Command_finalize(t_args, t_options) ==
    LET a == Command_create_args(t_args)
        as == NameSpace(a.members)
        os == NameSpace(Command_create_options(t_options).members)
    IN  IF a.st # "ok"
        THEN [st |-> a.st, msg |-> a.msg, name |-> a.name, args |-> None,
              max_args |-> None, options |-> None, params |-> None]
        ELSE [st |-> "ok", msg |-> "", name |-> "", args |-> as,
              max_args |-> IF Len(as) = 0 \/ ~as[Len(as)].multivalue
                           THEN Bounded(Len(as)) ELSE Unbounded,
              options |-> os,
              params |-> NameSpace(as \o os)]

-----------------------------------------------------------------------------
(* Command: the call pipeline *)

Names(ps) == {ps[i].name : i \in 1..Len(ps)}
ByName(ps, n) == ps[CHOOSE i \in 1..Len(ps) : ps[i].name = n]

\* the outcome of a step on a keyword mapping
KwOk(kw) == [st |-> "ok", kw |-> kw, name |-> "", index |-> -1, msg |-> "", n |-> 0]
KwRaise(r) == [st |-> r.st, kw |-> <<>>, name |-> r.name, index |-> r.index,
               msg |-> "", n |-> 0]
ArgumentError(m, k) == [st |-> "ArgumentError", kw |-> <<>>, name |-> "",
                        index |-> -1, msg |-> m, n |-> k]

\* __args_to_kw_iter: arg i takes values[i], a multivalue arg takes values[i:]
ArgsToKwItems(as, values) ==
    LET used == IF Len(values) < Len(as) THEN Len(values) ELSE Len(as)
    IN  [nm \in {as[i].name : i \in 1..used} |->
            LET i == CHOOSE j \in 1..used : as[j].name = nm
            IN  IF as[i].multivalue
                THEN Tup(SubSeq(values, i, Len(values)))
                ELSE values[i]]

Command_args_to_kw_off_by_one(as, limit, values) ==
    IF limit.bounded /\ Len(values) >= limit.n
    THEN IF limit.n = 0 THEN ArgumentError("takes no arguments", 0)
         ELSE IF limit.n = 1 THEN ArgumentError("takes at most 1 argument", 1)
         ELSE ArgumentError("takes at most %d arguments", Len(as))
    ELSE KwOk(ArgsToKwItems(as, values))

Command_args_to_kw(as, limit, values) ==
    IF limit.bounded /\ Len(values) > limit.n
    THEN IF limit.n = 0 THEN ArgumentError("takes no arguments", 0)
         ELSE IF limit.n = 1 THEN ArgumentError("takes at most 1 argument", 1)
         ELSE ArgumentError("takes at most %d arguments", Len(as))
    ELSE KwOk(ArgsToKwItems(as, values))

\* Command.normalize: self.params[k] raises KeyError for an unknown name
Command_normalize(ps, kw) ==
    IF \E k \in DOMAIN kw : k \notin Names(ps)
    THEN KwRaise(Raise("KeyError", "", -1))
    ELSE KwOk([k \in DOMAIN kw |-> Param_normalize(ByName(ps, k), kw[k]).val])

\* Command.convert: the possible outcomes; the dict is walked in no declared
\* order, so any one of the values that fail to convert may be the one that raises
Command_convert(ps, kw) ==
    LET rs == [k \in DOMAIN kw |-> Param_convert(ByName(ps, k), kw[k])]
        failing == {k \in DOMAIN kw : rs[k].st # "ok"}
    IN  IF failing = {}
        THEN {KwOk([k \in DOMAIN kw |-> rs[k].val])}
        ELSE {KwRaise(rs[k]) : k \in failing}

Command_get_default_drops_none(ps, kw) ==
    LET rs == [i \in 1..Len(ps) |->
                  IF ps[i].name \in DOMAIN kw
                  THEN Ok(None) ELSE Param_get_default(ps[i], kw)]
        f == FirstRaise(rs)
        missing == {i \in 1..Len(ps) :
                        ps[i].name \notin DOMAIN kw /\ rs[i].val # None}
    IN  IF f # 0 THEN KwRaise(rs[f])
        ELSE KwOk([nm \in {ps[i].name : i \in missing} |->
                      rs[CHOOSE i \in missing : ps[i].name = nm].val])

\* Command.get_default: a default (possibly None) for every param not in kw
Command_get_default(ps, kw) ==
    LET rs == [i \in 1..Len(ps) |->
                  IF ps[i].name \in DOMAIN kw
                  THEN Ok(None) ELSE Param_get_default(ps[i], kw)]
        f == FirstRaise(rs)
        missing == {i \in 1..Len(ps) : ps[i].name \notin DOMAIN kw}
    IN  IF f # 0 THEN KwRaise(rs[f])
        ELSE KwOk([nm \in {ps[i].name : i \in missing} |->
                      rs[CHOOSE i \in missing : ps[i].name = nm].val])

Command_validate_ignores_required(ps, kw) ==
    LET rs == [i \in 1..Len(ps) |->
                  LET value == KwGet(kw, ps[i].name)
                  IN  IF value # None THEN Param_validate(ps[i], value)
                      ELSE Ok(None)]
        f == FirstRaise(rs)
    IN  IF f = 0 THEN Ok(None) ELSE rs[f]

\* Command.validate: the params in order, the first failure raised
Command_validate(ps, kw) ==
    LET rs == [i \in 1..Len(ps) |->
                  LET value == KwGet(kw, ps[i].name)
                  IN  IF value # None THEN Param_validate(ps[i], value)
                      ELSE IF ps[i].required
                      THEN Raise("RequirementError", ps[i].name, -1)
                      ELSE Ok(None)]
        f == FirstRaise(rs)
    IN  IF f = 0 THEN Ok(None) ELSE rs[f]

\* the outcome of Command.__call__: the exception raised, or the strategy
\* invoked (target) and the positional tuple and keyword mapping it was handed
Returned(t, a, kw) ==
    [st |-> "ok", name |-> "", target |-> t, args |-> a, kw |-> kw]
Raised(r) ==
    [st |-> r.st, name |-> r.name, target |-> "", args |-> <<>>, kw |-> <<>>]

\* Command.__call__ from the point where every present value is converted, up
\* to the point where self.run is looked up
Assemble(as, ps, kw) ==
    LET d == Command_get_default(ps, kw)
        full == d.kw @@ kw
        v == Command_validate(ps, full)
        absent == {i \in 1..Len(as) : as[i].name \notin DOMAIN full}
    IN  IF d.st # "ok" THEN Raised(d)
        ELSE IF v.st # "ok" THEN Raised(v)
        ELSE IF absent # {}
        THEN Raised(Raise("KeyError",
                          as[CHOOSE i \in absent : \A j \in absent : i <= j].name,
                          -1))
        ELSE Returned("", [i \in 1..Len(as) |-> full[as[i].name]],
                      [k \in DOMAIN full \ Names(as) |-> full[k]])

\* Command.__call__(*values, **kw) up to the point where self.run is looked
\* up: its possible outcomes, an exception or the assembled args and kw
Pipeline(as, ps, limit, values, kw) ==
    LET a == IF Len(values) > 0
             THEN Command_args_to_kw(as, limit, values) ELSE KwOk(<<>>)
        merged == a.kw @@ kw
        n == Command_normalize(ps, merged)
    IN  IF a.st # "ok" THEN {Raised(a)}
        ELSE IF DOMAIN a.kw \cap DOMAIN kw # {}
        THEN {Raised(Raise("AssertionError", "", -1))}
        ELSE IF n.st # "ok" THEN {Raised(n)}
        ELSE {IF c.st # "ok" THEN Raised(c) ELSE Assemble(as, ps, c.kw) :
                    c \in Command_convert(ps, n.kw)}

\* Command.run, the method as the class defines it: the strategy it selects
\* from the context flag
Command_run(flag) == IF flag THEN "execute" ELSE "forward"

\* object.__setattr__(self, 'run', target): what run is bound to afterwards
Rebind_skipped(t) == "run"

Rebind(t) == t

\* self.run(*args, **kw) with run bound to bound and nothing else running:
\* the strategy invoked
Dispatch(bound, flag) == IF bound = "run" THEN Command_run(flag) ELSE bound

\* Command.__call__(*values, **kw) run from start to end: its possible outcomes
Command_call(as, ps, limit, bound, flag, values, kw) ==
    {IF o.st = "ok" THEN [o EXCEPT !.target = Dispatch(bound, flag)] ELSE o :
        o \in Pipeline(as, ps, limit, values, kw)}

-----------------------------------------------------------------------------
(* A Param and the calls on it *)

Defaults == {None, Uni("a"), Uni("B"), Uni("long")}
Callbacks == {"first", "last", "bad", "none", "raise"}
DefaultFroms ==
    {NoDefaultFrom} \cup {DefaultFrom(cb, <<"first", "last">>) : cb \in Callbacks}
ExtraRules == {<<>>, <<"not_b">>}
Normalizers == {"", "lower", "raises"}

Params ==
    {Param("p", req, multi, dflt, dfrom, rls, norm) :
        req \in BOOLEAN, multi \in BOOLEAN, dflt \in Defaults,
        dfrom \in DefaultFroms, rls \in ExtraRules, norm \in Normalizers}

Values ==
    {None, Str(""), Tup(<<>>), Lst(<<>>), Str("a"), Str("B"), Str("bad"),
     Lst(<<Uni("a"), Str("b")>>)}

ContextValues == {None, Uni("a"), Str("B")}
Contexts ==
    UNION {[ks -> ContextValues] : ks \in SUBSET {"first", "last"}}

NotCalled == [out |-> Ok(None), invoked |-> FALSE, vals |-> <<>>]

\* no Command is in use
NotFinalized == [st |-> "no", msg |-> "", name |-> ""]
NoCommand ==
    /\ takes_args = <<>>
    /\ takes_options = <<>>
    /\ args = None
    /\ options = None
    /\ params = None
    /\ max_args = None
    /\ fin = NotFinalized
    /\ in_server_context = FALSE
    /\ run = "run"
    /\ c_values = <<>>
    /\ c_kw = <<>>
    /\ c_op = "init"
    /\ c_out = Ok(None)

\* no caller is calling a Command
NoCallers ==
    /\ pc = <<>>
    /\ held = <<>>
    /\ target = <<>>
    /\ calls = 0
    /\ n_reads = 0
    /\ first_choice = ""
    /\ overlapped = FALSE
    /\ c_env = FALSE

\* Object.__Property: None until set_api, then a NameSpace
Unlinked == [linked |-> FALSE, members |-> <<>>]
Linked(ms) == [linked |-> TRUE, members |-> ms]

\* no Method is in use
NoMethod ==
    /\ api_Property = <<>>
    /\ m_takes_options = <<>>
    /\ obj_Property = Unlinked
    /\ m_op = "init"
    /\ m_options = <<>>

ParamInit ==
    /\ NoCommand
    /\ NoCallers
    /\ NoMethod
    /\ param \in Params
    /\ p_value \in Values
    /\ p_kw \in Contexts
    /\ p_op = "init"
    /\ p_out = Ok(None)
    /\ p_df = NotCalled

CallDefaultFrom ==
    /\ param.default_from # NoDefaultFrom
    /\ p_op' = "default_from"
    /\ p_df' = DefaultFrom_call(param.default_from, p_kw)
    /\ p_out' = DefaultFrom_call(param.default_from, p_kw).out
    /\ UNCHANGED <<param, p_value, p_kw, cvars, rvars, mvars>>

CallGetDefault ==
    /\ p_op' = "get_default"
    /\ p_out' = Param_get_default(param, p_kw)
    /\ p_df' = NotCalled
    /\ UNCHANGED <<param, p_value, p_kw, cvars, rvars, mvars>>

CallParam ==
    /\ p_op' = "call"
    /\ p_out' = Param_call(param, p_value, p_kw)
    /\ p_df' = NotCalled
    /\ UNCHANGED <<param, p_value, p_kw, cvars, rvars, mvars>>

ParamNext == CallDefaultFrom \/ CallGetDefault \/ CallParam

SpecParam == ParamInit /\ [][ParamNext]_vars

-----------------------------------------------------------------------------
(* Claims about DefaultFrom and Param *)

\* what default_from yields for the context p_kw (None when there is none)
Derived ==
    IF param.default_from = NoDefaultFrom
    THEN None ELSE DefaultFrom_call(param.default_from, p_kw).out.val

DerivedFailsConversion ==
    /\ Derived # None
    /\ ConvertNormalize(param, Derived).st \in ValidationError

\* C3 as stated: get_default returns the static default when default_from
\* yields a value whose convert(normalize(value)) raises a validation-class
\* error, and when default_from is absent or yields nothing.
C3_AsStated ==
    p_op = "get_default" =>
        /\ DerivedFailsConversion => p_out = Ok(param.default)
        /\ Derived = None => p_out = Ok(param.default)

\* C3 amended: when default_from yields a value whose convert(normalize(value))
\* raises a validation-class error, get_default returns None (not the static
\* default) and does not propagate the error; when default_from is absent or
\* yields nothing, it returns the static default.
C3_GetDefault ==
    p_op = "get_default" =>
        /\ DerivedFailsConversion => p_out = Ok(None)
        /\ Derived = None => p_out = Ok(param.default)

C3_Witness ==
    /\ p_op = "get_default"
    /\ DerivedFailsConversion
    /\ param.default # None
    /\ p_out = Ok(None)

AllKeysPresent(d, kw) ==
    \A i \in 1..Len(d.keys) : d.keys[i] \in DOMAIN kw /\ kw[d.keys[i]] # None

\* C6: DefaultFrom.__call__ invokes the callback, positionally in declared key
\* order, exactly when every declared key is present with a non-None value, and
\* then returns the callback's result, or None if the callback raised; with a
\* key missing or None it returns None; it never raises.
C6_DefaultFrom ==
    p_op = "default_from" =>
        LET d == param.default_from
            vals == [i \in 1..Len(d.keys) |-> p_kw[d.keys[i]]]
        IN  /\ p_out.st = "ok"
            /\ p_df.invoked = AllKeysPresent(d, p_kw)
            /\ ~AllKeysPresent(d, p_kw) => p_out = Ok(None)
            /\ AllKeysPresent(d, p_kw) =>
                  /\ p_df.vals = vals
                  /\ p_out = IF CallbackCall(d.callback, vals).st = "ok"
                             THEN CallbackCall(d.callback, vals) ELSE Ok(None)

C6_Witness ==
    /\ p_op = "default_from"
    /\ p_df.invoked
    /\ CallbackCall(param.default_from.callback, p_df.vals).st = "Exception"
    /\ p_out = Ok(None)

\* a default that the pipeline hands back as it is: already of the type's
\* representation, left alone by the normalize callback, accepted by every rule
Settled(p, d) ==
    /\ d.k = Type_type
    /\ Param_normalize_scalar(p, d, -1).val = d
    /\ \A i \in 1..Len(p.rules) : RuleCall(p.rules[i], d) = ""

NoContextNoValue ==
    p_op = "call" /\ ~param.multivalue /\ p_value = None /\ p_kw = <<>>

-----------------------------------------------------------------------------
(* A Command, its finalization and the calls on it *)

MaxArgs == 2
MaxValues == 3

ArgNames == <<"name", "extra", "more", "rest">>
Suffixes == {"", "?", "*", "+"}
ArgSpec(i, sfx) ==
    SpecStr(IF sfx = "" THEN <<ArgNames[i]>> ELSE <<ArgNames[i], sfx>>)

\* every declaration of up to MaxArgs args by spec string
ArgDecls ==
    UNION {{[i \in 1..n |-> ArgSpec(i, f[i])] : f \in [1..n -> Suffixes]} :
            n \in 0..MaxArgs}

Flag == SpecStr(<<"flag", "?">>)
Tags(req, dflt, dfrom, norm) ==
    ParamItem(Param("tags", req, TRUE, dflt, dfrom, <<"not_b">>, norm))

\* declarations of options: 'flag?' alone, or with a multivalue Param tags
OptionDecls ==
    {<<Flag>>}
    \cup {<<Flag, Tags(req, dflt, NoDefaultFrom, norm)>> :
            req \in BOOLEAN, dflt \in {None, Tup(<<Uni("a")>>)},
            norm \in {"", "lower"}}
    \cup {<<Flag, Tags(TRUE, None, DefaultFrom("first", <<"name">>), "")>>}

Declarations ==
    (ArgDecls \X {<<>>})
    \cup ({<<ArgSpec(1, "")>>, <<ArgSpec(1, ""), ArgSpec(2, "?")>>,
           <<ArgSpec(1, ""), ArgSpec(2, "*")>>} \X OptionDecls)

PosValues == {Str("alice"), Str("bad")}
ValueTuples == UNION {[1..n -> PosValues] : n \in 0..MaxValues}

KwInputs ==
    {<<>>, "zz" :> Str("a"), "flag" :> Str("a"), "name" :> Str("alice")}
    \cup {"tags" :> v : v \in {Lst(<<>>), Tup(<<>>), Lst(<<Str("B")>>), Str("bad")}}
    \cup {("flag" :> Str("a")) @@ ("tags" :> Lst(<<>>)),
          ("name" :> Str("alice")) @@ ("tags" :> Tup(<<>>))}

\* no Param is in use on its own
NoParam ==
    /\ param = None
    /\ p_value = None
    /\ p_kw = <<>>
    /\ p_op = "init"
    /\ p_out = Ok(None)
    /\ p_df = NotCalled

CommandInit ==
    /\ NoParam
    /\ NoCallers
    /\ NoMethod
    /\ \E d \in Declarations : takes_args = d[1] /\ takes_options = d[2]
    /\ args = None
    /\ options = None
    /\ params = None
    /\ max_args = None
    /\ fin = NotFinalized
    /\ in_server_context \in BOOLEAN
    /\ run = "run"
    /\ c_values \in ValueTuples
    /\ c_kw \in KwInputs
    /\ c_op = "init"
    /\ c_out = Ok(None)

Finalize ==
    /\ fin.st = "no"
    /\ LET f == Command_finalize(takes_args, takes_options)
       IN  /\ fin' = [st |-> f.st, msg |-> f.msg, name |-> f.name]
           /\ args' = f.args
           /\ max_args' = f.max_args
           /\ options' = f.options
           /\ params' = f.params
    /\ c_op' = "finalize"
    /\ UNCHANGED <<takes_args, takes_options, in_server_context, run,
                   c_values, c_kw, c_out, pvars, rvars, mvars>>

ArgsToKw ==
    /\ fin.st = "ok"
    /\ c_op' = "args_to_kw"
    /\ c_out' = Command_args_to_kw(args, max_args, c_values)
    /\ UNCHANGED <<takes_args, takes_options, args, options, params, max_args,
                   fin, in_server_context, run, c_values, c_kw, pvars, rvars,
                   mvars>>

Call ==
    /\ fin.st = "ok"
    /\ \E out \in Command_call(args, params, max_args, run, in_server_context,
                               c_values, c_kw) :
          /\ c_out' = out
          /\ run' = IF out.target # "" /\ run = "run"
                    THEN Rebind(out.target) ELSE run
    /\ c_op' = "call"
    /\ UNCHANGED <<takes_args, takes_options, args, options, params, max_args,
                   fin, in_server_context, c_values, c_kw, pvars, rvars, mvars>>

CommandNext == Finalize \/ ArgsToKw \/ Call

SpecCommand == CommandInit /\ [][CommandNext]_vars

-----------------------------------------------------------------------------
(* Claims about Command *)

Declared(i) == create_param(takes_args[i]).val

\* the two ordering rules, on the declared arg sequence
OrderingRules ==
    /\ \A i, j \in 1..Len(takes_args) :
          i < j => ~(~Declared(i).required /\ Declared(j).required)
    /\ \A i \in 1..Len(takes_args) :
          Declared(i).multivalue => i = Len(takes_args)

\* C7: finalize succeeds exactly when the declared args satisfy both ordering
\* rules and otherwise raises ValueError, before any call; after a successful
\* finalize at most the last arg is multivalue, no required arg follows an
\* optional one, and max_args is None iff the last arg is multivalue, else
\* len(args).
C7_Finalize ==
    fin.st # "no" =>
        /\ (fin.st = "ok") = OrderingRules
        /\ fin.st # "ok" => fin.st = "ValueError" /\ c_op = "finalize"
        /\ fin.st = "ok" =>
              /\ \A i \in 1..Len(args) : args[i].multivalue => i = Len(args)
              /\ \A i, j \in 1..Len(args) :
                    i < j => ~(~args[i].required /\ args[j].required)
              /\ max_args = IF Len(args) > 0 /\ args[Len(args)].multivalue
                            THEN Unbounded ELSE Bounded(Len(args))

C7_Witness ==
    /\ fin.st = "ValueError"
    /\ fin.msg = "only final argument can be multivalue"
    /\ Len(takes_args) = 2
    /\ Declared(1).multivalue
    /\ c_op = "finalize"

\* C8: args_to_kw raises ArgumentError exactly when max_args is bounded and
\* len(values) > max_args; the message is 'takes no arguments' for max_args 0,
\* 'takes at most 1 argument' for 1, else 'takes at most %d arguments' with
\* len(args), which equals max_args whenever it is reported.
C8_ArgsToKw ==
    c_op = "args_to_kw" =>
        /\ c_out.st \in {"ok", "ArgumentError"}
        /\ (c_out.st = "ArgumentError")
              = (max_args.bounded /\ Len(c_values) > max_args.n)
        /\ c_out.st = "ArgumentError" =>
              /\ c_out.msg = CASE max_args.n = 0 -> "takes no arguments"
                               [] max_args.n = 1 -> "takes at most 1 argument"
                               [] OTHER -> "takes at most %d arguments"
              /\ c_out.n = max_args.n

C8_Witness ==
    /\ c_op = "args_to_kw"
    /\ c_out.st = "ArgumentError"
    /\ c_out.msg = "takes at most %d arguments"
    /\ c_out.n = 2
    /\ Len(c_values) = 3

Dispatched == c_op = "call" /\ c_out.target # ""

\* the value the strategy was handed for a param, positional or keyword
Handed(n) ==
    IF \E i \in 1..Len(args) : args[i].name = n
    THEN c_out.args[CHOOSE i \in 1..Len(args) : args[i].name = n]
    ELSE c_out.kw[n]

\* the values the caller supplied, positional ones under their arg's name
Supplied == ArgsToKwItems(args, c_values) @@ c_kw

\* C2: a strategy is invoked only after the whole pipeline has succeeded:
\* args_to_kw accepted the positional values, every supplied value belongs to a
\* param and converted, and in the assembled mapping every param with a value
\* passes its validate and no required param is without a value; a call that
\* raises invokes no strategy.
C2_NoPartialApplication ==
    /\ c_op = "call" /\ c_out.st # "ok" => c_out.target = ""
    /\ Dispatched =>
          /\ c_out.st = "ok"
          /\ Len(c_values) > 0 =>
                Command_args_to_kw(args, max_args, c_values).st = "ok"
          /\ DOMAIN ArgsToKwItems(args, c_values) \cap DOMAIN c_kw = {}
          /\ \A k \in DOMAIN Supplied :
                /\ k \in Names(params)
                /\ ConvertNormalize(ByName(params, k), Supplied[k]).st = "ok"
          /\ \A i \in 1..Len(params) :
                LET v == Handed(params[i].name)
                IN  IF v # None
                    THEN Param_validate(params[i], v).st = "ok"
                    ELSE ~params[i].required

C2_Witness ==
    /\ Dispatched
    /\ "tags" \in DOMAIN c_kw
    /\ Len(c_values) = 1
    /\ Handed("tags") # None

\* the example: required arg 'name', option 'flag?', called with ('alice',)
Example ==
    /\ Dispatched
    /\ takes_args = <<ArgSpec(1, "")>>
    /\ takes_options = <<Flag>>
    /\ c_values = <<Str("alice")>>
    /\ c_kw = <<>>

\* an option the caller did not supply and that has no default of either kind
Undefaulted(o) ==
    /\ o.name \notin DOMAIN Supplied
    /\ o.default = None
    /\ o.default_from = NoDefaultFrom

\* each arg's value, in declared order: the converted supplied value, or the
\* default of an arg that was not supplied
ArgsInOrder ==
    /\ Len(c_out.args) = Len(args)
    /\ \A i \in 1..Len(args) :
          IF args[i].name \in DOMAIN Supplied
          THEN c_out.args[i]
                  = ConvertNormalize(args[i], Supplied[args[i].name]).val
          ELSE c_out.args[i] = Param_get_default(args[i], <<>>).val

\* C4 as stated: in the example the strategy is handed args ('alice',) and kw
\* {}; in general the positional tuple holds the arg values in declared order
\* and the keyword mapping only the remaining options, an unsupplied option
\* with no default not appearing in it.
C4_AsStated ==
    Dispatched =>
        /\ ArgsInOrder
        /\ DOMAIN c_out.kw \subseteq Names(options)
        /\ \A i \in 1..Len(options) :
              Undefaulted(options[i]) => options[i].name \notin DOMAIN c_out.kw
        /\ Example => c_out.args[1].s = "alice" /\ c_out.kw = <<>>

\* C4 amended: in the example the strategy is handed args (u'alice',) and kw
\* {'flag': None}; in general the positional tuple holds the arg values in
\* declared order and the keyword mapping holds every option, an unsupplied
\* option with no default appearing in it with the value None.
C4_Assembly ==
    Dispatched =>
        /\ ArgsInOrder
        /\ DOMAIN c_out.kw = Names(options)
        /\ \A i \in 1..Len(options) :
              Undefaulted(options[i]) => c_out.kw[options[i].name] = None
        /\ Example => c_out.args = <<Uni("alice")>> /\ c_out.kw = ("flag" :> None)

C4_Witness ==
    /\ Example
    /\ c_out.st = "ok"
    /\ c_out.kw = ("flag" :> None)

\* a keyword mapping without one of its keys
Omit(kw, n) == [k \in DOMAIN kw \ {n} |-> kw[k]]

\* C10: in Command.__call__ a multivalue param supplied as [] or () has the
\* same outcome as the same call with that param omitted.
C10_EmptyIsOmitted ==
    c_op = "call" =>
        \A k \in DOMAIN c_kw \cap Names(params) :
            (ByName(params, k).multivalue /\ c_kw[k] \in {Lst(<<>>), Tup(<<>>)})
            => c_out \in Command_call(args, params, max_args, run,
                                      in_server_context, c_values, Omit(c_kw, k))

-----------------------------------------------------------------------------
(* Callers of one Command instance: Command.run and the context flag *)

NumCallers == 2
MaxCalls == 3

Callers == 1..NumCallers

\* a Command with required arg 'name' and option 'flag?', finalized
RunInit ==
    /\ NoParam
    /\ NoMethod
    /\ takes_args = <<ArgSpec(1, "")>>
    /\ takes_options = <<Flag>>
    /\ LET f == Command_finalize(<<ArgSpec(1, "")>>, <<Flag>>)
       IN  /\ fin = [st |-> f.st, msg |-> f.msg, name |-> f.name]
           /\ args = f.args
           /\ max_args = f.max_args
           /\ options = f.options
           /\ params = f.params
    /\ in_server_context \in BOOLEAN
    /\ run = "run"
    /\ c_values = <<>>
    /\ c_kw = <<>>
    /\ c_op = "finalize"
    /\ c_out = Ok(None)
    /\ pc = [t \in Callers |-> "idle"]
    /\ held = [t \in Callers |-> Ok(None)]
    /\ target = [t \in Callers |-> ""]
    /\ calls = 0
    /\ n_reads = 0
    /\ first_choice = ""
    /\ overlapped = FALSE
    /\ c_env = FALSE

\* the environment changes the context flag
SetEnv ==
    /\ in_server_context' = ~in_server_context
    /\ UNCHANGED <<takes_args, takes_options, args, options, params, max_args,
                   fin, run, c_values, c_kw, c_op, c_out, pvars, rvars, mvars>>

\* Command.__call__ up to the lookup of self.run, by caller t: it raises, or
\* finds run bound to a strategy and invokes it, or enters Command.run
CallCommand(t) ==
    /\ pc[t] = "idle"
    /\ calls < MaxCalls
    /\ calls' = calls + 1
    /\ \E values \in {<<>>, <<Str("alice")>>} :
        \E out \in Pipeline(args, params, max_args, values, <<>>) :
          /\ c_values' = values
          /\ c_kw' = <<>>
          /\ c_op' = IF out.st = "ok" /\ run = "run" THEN "run" ELSE "call"
          /\ IF out.st # "ok"
             THEN /\ c_out' = out
                  /\ UNCHANGED <<pc, held, overlapped, c_env>>
             ELSE IF run # "run"
             THEN /\ c_out' = [out EXCEPT !.target = run]
                  /\ c_env' = in_server_context
                  /\ UNCHANGED <<pc, held, overlapped>>
             ELSE /\ pc' = [pc EXCEPT ![t] = "run"]
                  /\ held' = [held EXCEPT ![t] = out]
                  /\ overlapped' =
                        (overlapped \/ \E u \in Callers \ {t} : pc[u] # "idle")
                  /\ UNCHANGED <<c_out, c_env>>
    /\ UNCHANGED <<takes_args, takes_options, args, options, params, max_args,
                   fin, in_server_context, run, target, n_reads, first_choice,
                   pvars, mvars>>

\* Command.run by caller t: the context flag is read and target selected
RunSelect(t) ==
    /\ pc[t] = "run"
    /\ target' = [target EXCEPT ![t] = Command_run(in_server_context)]
    /\ n_reads' = n_reads + 1
    /\ first_choice' = IF n_reads = 0
                       THEN Command_run(in_server_context) ELSE first_choice
    /\ pc' = [pc EXCEPT ![t] = "bind"]
    /\ UNCHANGED <<cvars, held, calls, overlapped, c_env, pvars, mvars>>

\* Command.run by caller t: run is rebound to target and target invoked
RunInvoke(t) ==
    /\ pc[t] = "bind"
    /\ run' = Rebind(target[t])
    /\ c_out' = [held[t] EXCEPT !.target = target[t]]
    /\ c_env' = in_server_context
    /\ c_op' = "call"
    /\ pc' = [pc EXCEPT ![t] = "idle"]
    /\ target' = [target EXCEPT ![t] = ""]
    /\ held' = [held EXCEPT ![t] = Ok(None)]
    /\ UNCHANGED <<takes_args, takes_options, args, options, params, max_args,
                   fin, in_server_context, c_values, c_kw, calls, n_reads,
                   first_choice, overlapped, pvars, mvars>>

RunNext ==
    \/ SetEnv
    \/ \E t \in Callers : CallCommand(t)
    \/ \E t \in Callers : RunSelect(t)
    \/ \E t \in Callers : RunInvoke(t)

SpecRun == RunInit /\ [][RunNext]_vars

\* C1 as stated: the strategy is chosen from the context flag observed at the
\* first call, and every call, in any sequence or interleaving, is dispatched
\* to that strategy, even if the flag has changed in between.
C1_AsStated ==
    /\ Dispatched => c_out.target = first_choice
    /\ run # "run" => run = first_choice

\* C1 amended: for calls on an instance that do not overlap inside run, the
\* strategy is chosen from the context flag read by the first call that reaches
\* run, the flag is read that once, and every later call is dispatched to that
\* strategy even if the flag has changed in between.  (Callers that are inside
\* run at the same time each read the flag and each rebind run.)
C1_Memoized ==
    ~overlapped =>
        /\ n_reads <= 1
        /\ Dispatched => c_out.target = first_choice
        /\ run # "run" => run = first_choice

C1_Witness ==
    /\ ~overlapped
    /\ Dispatched
    /\ calls = MaxCalls
    /\ n_reads = 1
    /\ c_out.target = "execute"
    /\ c_env = FALSE

-----------------------------------------------------------------------------
(* Object, Property and Method.get_options *)

\* a Property plugin of the class named obj_attr: Attribute.__init__ splits
\* the class name, Property.__init__ builds its param
Property(obj, attr, req, dfrom) ==
    [obj_name |-> obj, attr_name |-> attr,
     param |-> Param(attr, req, FALSE, None, dfrom, <<>>, "")]

\* Object.__filter_members: the members of an api namespace that belong to
\* the Object called name, in the namespace's order
Object_filter_members(namespace, name) ==
    SelectSeq(namespace, LAMBDA proxy : proxy.obj_name = name)

\* plugable.NameSpace(members), called without sort=False: the order in which
\* the namespace hands its members back.  plugable is outside this file; the
\* members are kept in the order given, which for the Property namespace is
\* the registration order.
NameSpaceDefault(members) == members

Object_create_namespace(namespace, name) ==
    Linked(NameSpaceDefault(Object_filter_members(namespace, name)))

get_key_ignores_default_from(p) == IF p.param.required THEN 0 ELSE 2

get_key(p) ==
    IF p.param.required
    THEN IF p.param.default_from = NoDefaultFrom THEN 0 ELSE 1
    ELSE 2

\* sorted(props, key=get_key): a stable sort on the three keys
SortedByKey(props) ==
    SelectSeq(props, LAMBDA q : get_key(q) = 0)
    \o SelectSeq(props, LAMBDA q : get_key(q) = 1)
    \o SelectSeq(props, LAMBDA q : get_key(q) = 2)

\* Method.get_options: the items it yields; obj_props is obj.Property, None
\* before the Object is linked
Method_get_options(takes, obj_props) ==
    IF ~obj_props.linked THEN takes
    ELSE takes \o [i \in 1..Len(obj_props.members) |->
                      ParamItem(SortedByKey(obj_props.members)[i].param)]

MaxProperties == 3

PropNames == <<"size", "color", "shape", "age">>

\* the api's Property namespace: up to MaxProperties registered plugins
Registries ==
    UNION {{[i \in 1..n |-> Property(f[i][1], PropNames[i], f[i][2], f[i][3])] :
              f \in [1..n -> {"widget", "gadget"} \X BOOLEAN
                             \X {NoDefaultFrom, DefaultFrom("first", <<"name">>)}]} :
            n \in 0..MaxProperties}

MethodInit ==
    /\ NoParam
    /\ NoCommand
    /\ NoCallers
    /\ api_Property \in Registries
    /\ m_takes_options \in {<<>>, <<Flag>>}
    /\ obj_Property = Unlinked
    /\ m_op = "init"
    /\ m_options = <<>>

\* Object.set_api on the Object widget
SetApi ==
    /\ m_op = "init"
    /\ obj_Property' = Object_create_namespace(api_Property, "widget")
    /\ m_op' = "set_api"
    /\ UNCHANGED <<api_Property, m_takes_options, m_options, pvars, cvars, rvars>>

\* Method.get_options on a Method of the Object widget
GetOptions ==
    /\ m_options' = Method_get_options(m_takes_options, obj_Property)
    /\ m_op' = "get_options"
    /\ UNCHANGED <<api_Property, m_takes_options, obj_Property, pvars, cvars,
                   rvars>>

MethodNext == SetApi \/ GetOptions

SpecMethod == MethodInit /\ [][MethodNext]_vars

\* the registered Properties of widget, by registration index
Registered == {i \in 1..Len(api_Property) : api_Property[i].obj_name = "widget"}
Tier(i) ==
    IF api_Property[i].param.required
    THEN IF api_Property[i].param.default_from = NoDefaultFrom THEN 0 ELSE 1
    ELSE 2

\* the registration index of the Property whose param is yielded at position k
Origin(k) ==
    CHOOSE i \in Registered :
        m_options[k] = ParamItem(api_Property[i].param)

====
